---- MODULE Spec2Model ----
(***************************************************************************)
(* Model of the relevance-scoring engine of ispt_heat_scraper:             *)
(*   geotherm_test/utils.py            fuzzy_match_keyword,                *)
(*                                     fuzzy_match_two_sets_keywords,      *)
(*                                     chunk_keywords                      *)
(*   geotherm_test/analysis/scorer.py  DecarbonizationScorer               *)
(*   geotherm_test/analysis/case_study.py  CaseStudy                       *)
(*   geotherm_test/system/ispt_scraper.py  IsptHeatScraper                 *)
(*   geotherm_test/scraping/scraper.py     BeautifulScraper                *)
(*                                                                         *)
(* A Python str is a sequence of one-character strings.  A call that ends  *)
(* in an exception is an outcome [raised |-> TRUE, ...]; it is never       *)
(* replaced by a value.                                                    *)
(***************************************************************************)
EXTENDS Integers, Sequences, FiniteSets, TLC

VARIABLES
    match,          \* one call of fuzzy_match_keyword: its arguments and outcome
    util,           \* one call of another function of utils.py, or of ratio()
    taxonomy,       \* the content of the keywords JSON file (target_keywords)
    construction,   \* the construction of that scorer: DecarbonizationScorer(keywords_json)
    scorer,         \* one DecarbonizationScorer instance used directly
    call,           \* the last call made on `scorer`: operation, arguments, outcome
    history,        \* the text-scoring calls on `scorer` so far, summarised
    generate_keywords, \* IsptHeatScraper.run(generate_ai_keywords)
    articles,       \* number of entries of scraper.articles still to process
    case_,          \* the CaseStudy under construction (or NoCase)
    case_studies,   \* IsptHeatScraper.case_studies
    status,         \* where IsptHeatScraper._proccess_case_studies stands
    scraper         \* one BeautifulScraper: its construction and its fields

vars == <<match, util, taxonomy, construction, scorer, call, history, generate_keywords, articles,
          case_, case_studies, status, scraper>>

matchVars  == <<match, util>>
scorerVars == <<construction, scorer, call, history>>
systemVars == <<generate_keywords, articles, case_, case_studies, status>>

----------------------------------------------------------------------------
(* Bounds of the model.                                                    *)

MaxTextWords == 3    \* tokens of a text given to fuzzy_match_keyword
MaxKeyLen == 3       \* characters of a keyword given to fuzzy_match_keyword
MaxGroups == 2       \* groups of a taxonomy
MaxCalls == 2        \* calls made on one directly used scorer
MaxArticles == 2     \* entries of scraper.articles
MaxSetSize == 2      \* keywords of a set given to fuzzy_match_two_sets_keywords
MaxPhrases == 2      \* keywords of a list given to chunk_keywords
MaxRatioLen == 4     \* characters of a string given to SequenceMatcher
MaxKeyWords == 3     \* words of a keyword phrase given to fuzzy_match_keyword
MaxRetries == 3      \* the argument `retries` of BeautifulScraper
MaxRetryDelay == 1   \* the argument `retry_delay` of BeautifulScraper, in seconds

----------------------------------------------------------------------------
(* Characters and strings.                                                 *)

Letters == {"a", "b"}
Upper == {"B"}
Punctuation == {"."}
Whitespace == {" "}
Alphabet == Letters \cup Upper \cup Punctuation \cup Whitespace

SeqsUpTo(S, n) == UNION {[1..k -> S] : k \in 0..n}

Range(f) == {f[i] : i \in DOMAIN f}

\* str.lower() on one character.
LowerChar(c) == IF c = "B" THEN "b" ELSE c

\* str.lower()
Lower(s) == [i \in 1..Len(s) |-> LowerChar(s[i])]

\* the class [\w\s] of the regular expression r'[^\w\s]'
IsWordOrSpace(c) == c \in Letters \cup Upper \cup Whitespace

\* re.sub(r'[^\w\s]', '', s).lower()
Preprocess(s) == Lower(SelectSeq(s, IsWordOrSpace))

\* str.split(): the maximal runs of non-whitespace characters, in order.
RECURSIVE SplitFrom(_, _, _)
SplitFrom(s, i, cur) ==
    IF i > Len(s)
    THEN IF cur = <<>> THEN <<>> ELSE <<cur>>
    ELSE IF s[i] \in Whitespace
         THEN IF cur = <<>>
              THEN SplitFrom(s, i + 1, <<>>)
              ELSE <<cur>> \o SplitFrom(s, i + 1, <<>>)
         ELSE SplitFrom(s, i + 1, Append(cur, s[i]))

Split(s) == SplitFrom(s, 1, <<>>)

----------------------------------------------------------------------------
(* difflib.SequenceMatcher(None, a, b).ratio(), with no junk (isjunk is    *)
(* None, and the popularity heuristic needs 200 or more characters).       *)

\* a[i:i+k] == b[j:j+k]  (0-based offsets, as in Python)
BlockEq(a, b, i, j, k) == \A d \in 1..k : a[i + d] = b[j + d]

MatchCandidates(a, b, alo, ahi, blo, bhi) ==
    {c \in (alo..(ahi - 1)) \X (blo..(bhi - 1)) \X (1..(ahi - alo)) :
        /\ c[1] + c[3] <= ahi
        /\ c[2] + c[3] <= bhi
        /\ BlockEq(a, b, c[1], c[2], c[3])}

\* the order in which find_longest_match prefers blocks: longest, then
\* earliest in a, then earliest in b
Preferred(c, d) ==
    \/ c[3] > d[3]
    \/ c[3] = d[3] /\ c[1] < d[1]
    \/ c[3] = d[3] /\ c[1] = d[1] /\ c[2] <= d[2]

find_longest_match(a, b, alo, ahi, blo, bhi) ==
    LET C == MatchCandidates(a, b, alo, ahi, blo, bhi)
    IN  IF C = {} THEN <<alo, blo, 0>>
        ELSE CHOOSE c \in C : \A d \in C : Preferred(c, d)

\* the total size of get_matching_blocks() on a[alo:ahi], b[blo:bhi]
RECURSIVE MatchingSize(_, _, _, _, _, _)
MatchingSize(a, b, alo, ahi, blo, bhi) ==
    LET m == find_longest_match(a, b, alo, ahi, blo, bhi)
        i == m[1]
        j == m[2]
        k == m[3]
    IN  IF k = 0 THEN 0
        ELSE k
             + (IF alo < i /\ blo < j
                THEN MatchingSize(a, b, alo, i, blo, j) ELSE 0)
             + (IF i + k < ahi /\ j + k < bhi
                THEN MatchingSize(a, b, i + k, ahi, j + k, bhi) ELSE 0)

\* ratio() as the exact fraction num/den: 2.0 * matches / length, and 1.0
\* when both strings are empty
ratio(a, b) ==
    LET length == Len(a) + Len(b)
    IN  IF length = 0 THEN [num |-> 1, den |-> 1]
        ELSE [num |-> 2 * MatchingSize(a, b, 0, Len(a), 0, Len(b)),
              den |-> length]

\* ratio >= threshold for one ratio r and the threshold pct / 100.  The two
\* floats compared are the fractions rounded to nearest; rounding keeps
\* their order, and two different fractions this small never round to one
\* float, so the floats compare as the fractions do.
AtLeast(r, pct) == 100 * r.num >= pct * r.den

----------------------------------------------------------------------------
(* Python floats.  ratio() returns a float, and the multiple-keyword       *)
(* branch adds ratios and divides the sum in float arithmetic: IEEE 754    *)
(* binary64, every operation rounded to nearest, ties to even.  A float    *)
(* that is not zero is [e, m] with the value m * 2^(e - 52), where the     *)
(* significand m is a natural number of exactly 53 bits.  Significands and *)
(* the exact intermediate results are too wide for one integer and are     *)
(* kept as digits in base 2^14, least significant first, without leading   *)
(* zero digits (<<>> is 0).  Only non-negative values in the normal range  *)
(* occur.                                                                  *)

Precision == 53
DigitBits == 14
Base == 16384

FloatZero == [e |-> 0, m |-> <<>>]
IsFloatZero(x) == x.m = <<>>

RECURSIVE Pow2(_)
Pow2(n) == IF n = 0 THEN 1 ELSE 2 * Pow2(n - 1)

\* the digits of a natural number
RECURSIVE BigOfNat(_)
BigOfNat(n) == IF n = 0 THEN <<>> ELSE <<n % Base>> \o BigOfNat(n \div Base)

\* digits without the zero digits at the most significant end
RECURSIVE Trim(_)
Trim(N) ==
    IF N # <<>> /\ N[Len(N)] = 0 THEN Trim(SubSeq(N, 1, Len(N) - 1)) ELSE N

\* the number of bits of a natural number below Base, and of digits
RECURSIVE NatBits(_)
NatBits(n) == IF n = 0 THEN 0 ELSE 1 + NatBits(n \div 2)

BitLength(N) ==
    IF N = <<>> THEN 0 ELSE DigitBits * (Len(N) - 1) + NatBits(N[Len(N)])

\* A + B from digit i on, with the carry of the lower digits
RECURSIVE BigAddFrom(_, _, _, _)
BigAddFrom(A, B, i, carry) ==
    IF i > Len(A) /\ i > Len(B) THEN BigOfNat(carry)
    ELSE LET t == (IF i <= Len(A) THEN A[i] ELSE 0)
                  + (IF i <= Len(B) THEN B[i] ELSE 0) + carry
         IN  <<t % Base>> \o BigAddFrom(A, B, i + 1, t \div Base)

BigAdd(A, B) == BigAddFrom(A, B, 1, 0)

\* N * c from digit i on, for c <= Base
RECURSIVE BigMulFrom(_, _, _, _)
BigMulFrom(N, c, i, carry) ==
    IF i > Len(N) THEN BigOfNat(carry)
    ELSE LET t == N[i] * c + carry
         IN  <<t % Base>> \o BigMulFrom(N, c, i + 1, t \div Base)

\* N * 2^s
RECURSIVE ShiftLeft(_, _)
ShiftLeft(N, s) ==
    IF N = <<>> \/ s = 0 THEN N
    ELSE IF s >= DigitBits THEN <<0>> \o ShiftLeft(N, s - DigitBits)
    ELSE BigMulFrom(N, Pow2(s), 1, 0)

\* long division of the digits i, i - 1, ..., 1 of N by d < 2^17, after the
\* remainder rem of the higher digits
RECURSIVE BigDivFrom(_, _, _, _)
RECURSIVE BigDivStep(_, _, _, _)

AppendDigit(lower, digit) ==
    [quot |-> Append(lower.quot, digit), rem |-> lower.rem]

\* the step for the digit i, where t is the remainder so far with that digit
BigDivStep(N, d, i, t) == AppendDigit(BigDivFrom(N, d, i - 1, t % d), t \div d)

BigDivFrom(N, d, i, rem) ==
    IF i = 0 THEN [quot |-> <<>>, rem |-> rem]
    ELSE BigDivStep(N, d, i, rem * Base + N[i])

TrimQuotient(r) == [quot |-> Trim(r.quot), rem |-> r.rem]

\* N divided by d: the quotient and the remainder
BigDiv(N, d) == TrimQuotient(BigDivFrom(N, d, Len(N), 0))

\* N divided by 2^s: the quotient, and whether bits that are not 0 were dropped
RECURSIVE DropBits(_, _)

DroppedDigit(r, lost) == [quot |-> r.quot, inexact |-> r.inexact \/ lost]
DroppedBits(q) == [quot |-> q.quot, inexact |-> q.rem # 0]

DropBits(N, s) ==
    IF N = <<>> \/ s = 0 THEN [quot |-> N, inexact |-> FALSE]
    ELSE IF s >= DigitBits
         THEN DroppedDigit(DropBits(Tail(N), s - DigitBits), N[1] # 0)
         ELSE DroppedBits(BigDiv(N, Pow2(s)))

IsOdd(N) == N # <<>> /\ N[1] % 2 = 1

\* A >= B for digits of one length
BigGeq(A, B) ==
    \/ A = B
    \/ \E i \in 1..Len(A) :
          /\ A[i] > B[i]
          /\ \A j \in (i + 1)..Len(A) : A[j] = B[j]

\* the float M * 2^(e - 52) for M of Precision bits, or M = 2^Precision after
\* a rounding up
Normalized(M, e) ==
    IF BitLength(M) > Precision THEN [e |-> e + 1, m |-> DropBits(M, 1).quot]
    ELSE [e |-> e, m |-> M]

\* round to nearest, ties to even: up when the guard bit is 1 and the
\* dropped bits are more than half, or are half and Q is odd
RoundUp(Q, guard, inexact, e) ==
    Normalized(IF guard /\ (inexact \/ IsOdd(Q)) THEN BigAdd(Q, <<1>>) ELSE Q, e)

\* Q1 is the Precision bits to keep and the guard bit after them
RoundLast(Q1, inexact, e) == RoundUp(DropBits(Q1, 1).quot, IsOdd(Q1), inexact, e)

RoundDropped(dropped, sticky, e) ==
    RoundLast(dropped.quot, sticky \/ dropped.inexact, e)

RoundBits(N, sticky, E, length) ==
    IF length <= Precision
    THEN [e |-> E + length - 1, m |-> ShiftLeft(N, Precision - length)]
    ELSE RoundDropped(DropBits(N, length - Precision - 1), sticky, E + length - 1)

\* the float nearest to the exact value v, ties to even, where v = N * 2^E
\* when ~sticky and N * 2^E < v < (N + 1) * 2^E when sticky; N > 0, and N has
\* at least Precision + 2 bits when sticky
RoundToFloat(N, sticky, E) == RoundBits(N, sticky, E, BitLength(N))

\* the float nearest to an exact quotient, given as q.quot * 2^E and a remainder
RoundQuotient(q, E) == RoundToFloat(q.quot, q.rem # 0, E)

\* float(n) / float(d) for naturals n and 0 < d < 2^17: the quotient is
\* taken to more than Precision + 2 bits before it is rounded
FloatOfFraction(n, d) ==
    IF n = 0 THEN FloatZero
    ELSE RoundQuotient(BigDiv(ShiftLeft(BigOfNat(n), Precision + 2 + NatBits(d)), d),
                       0 - (Precision + 2 + NatBits(d)))

\* hi + lo for hi.e >= lo.e: the exact sum of the aligned significands, rounded
AddAligned(hi, lo) ==
    RoundToFloat(BigAdd(ShiftLeft(hi.m, hi.e - lo.e), lo.m), FALSE,
                 lo.e - (Precision - 1))

\* x + y
FloatAdd(x, y) ==
    IF IsFloatZero(x) THEN y
    ELSE IF IsFloatZero(y) THEN x
    ELSE IF x.e >= y.e THEN AddAligned(x, y)
    ELSE AddAligned(y, x)

\* x / k for an integer 0 < k < 2^17; halving is exact
RECURSIVE FloatDivInt(_, _)
FloatDivInt(x, k) ==
    IF IsFloatZero(x) \/ k = 1 THEN x
    ELSE IF k % 2 = 0 THEN FloatDivInt([x EXCEPT !.e = @ - 1], k \div 2)
    ELSE RoundQuotient(BigDiv(ShiftLeft(x.m, 2 + NatBits(k)), k),
                       x.e - (Precision - 1) - (2 + NatBits(k)))

\* x >= y
FloatGeq(x, y) ==
    IF IsFloatZero(y) THEN TRUE
    ELSE IF IsFloatZero(x) THEN FALSE
    ELSE x.e > y.e \/ (x.e = y.e /\ BigGeq(x.m, y.m))

\* the float that ratio() returns: 2.0 * matches / length, or 1.0
FloatRatio(r) == FloatOfFraction(r.num, r.den)

\* the float written pct / 100 in decimal, as 0.8
FloatOfPct(pct) == FloatOfFraction(pct, 100)

----------------------------------------------------------------------------
(* Outcomes of a call.                                                     *)

Return(v) == [raised |-> FALSE, value |-> v]
Raise(e) == [raised |-> TRUE, value |-> e]

ZeroDivisionError == "ZeroDivisionError"

----------------------------------------------------------------------------
(* utils.fuzzy_match_keyword(text, keyword, threshold=0.8)                 *)

KeywordThresholdPct == 80
\* the default of the parameter threshold, as a float
threshold == FloatOfPct(KeywordThresholdPct)

\* a scan that returns after the first word whether it matched or not
SingleKeywordScanFirstWord(keyword, text_words, i) ==
    IF i > Len(text_words) THEN 0
    ELSE IF AtLeast(ratio(keyword, text_words[i]), KeywordThresholdPct) THEN 1 ELSE 0

\* a scan that goes through all the words and counts those that match
RECURSIVE SingleKeywordScanCounting(_, _, _)
SingleKeywordScanCounting(keyword, text_words, i) ==
    IF i > Len(text_words) THEN 0
    ELSE (IF AtLeast(ratio(keyword, text_words[i]), KeywordThresholdPct) THEN 1 ELSE 0)
         + SingleKeywordScanCounting(keyword, text_words, i + 1)

\* the loop of the single-keyword branch, from text_words[i] on
RECURSIVE SingleKeywordScan(_, _, _)
SingleKeywordScan(keyword, text_words, i) ==
    IF i > Len(text_words) THEN 0       \* return False
    ELSE IF AtLeast(ratio(keyword, text_words[i]), KeywordThresholdPct)
         THEN 1                         \* number_of_hits += 1; return
         ELSE SingleKeywordScan(keyword, text_words, i + 1)

\* the inner loop of the multiple-keyword branch from position j on, for
\* the chunk at 0-based offset i: avg_ratio += ratio
RECURSIVE ChunkRatioSum(_, _, _, _, _)
ChunkRatioSum(keyword_words, text_words, i, j, avg_ratio) ==
    IF j > Len(keyword_words) THEN avg_ratio
    ELSE ChunkRatioSum(keyword_words, text_words, i, j + 1,
             FloatAdd(avg_ratio, FloatRatio(ratio(keyword_words[j], text_words[i + j]))))

AddFraction(x, y) ==
    [num |-> x.num * y.den + y.num * x.den, den |-> x.den * y.den]

\* the sum of the same ratios as an exact fraction
RECURSIVE ExactRatioSum(_, _, _, _)
ExactRatioSum(keyword_words, text_words, i, j) ==
    IF j > Len(keyword_words) THEN [num |-> 0, den |-> 1]
    ELSE AddFraction(ratio(keyword_words[j], text_words[i + j]),
                     ExactRatioSum(keyword_words, text_words, i, j + 1))

\* avg_ratio /= num_keywords; avg_ratio >= threshold, for the chunk at offset
\* i whose ratios have the exact sum `exact`.  The floats are within
\* (k + 2) / 2^53 of the exact average and of 0.8, for k = num_keywords: each
\* ratio and the threshold are rounded once, and so is each of the k - 1 sums
\* and the quotient, all of them at most k.  An exact average that differs
\* from 4/5 differs from it by 1 / (5 * k * exact.den) or more, which is far
\* more than that for words this short, so that the comparison of the floats
\* is the comparison of the exact values.  Where the exact average is 4/5 the
\* roundings decide, and the comparison is made on the floats.
CompareAverage(keyword_words, text_words, i, num_keywords, exact) ==
    IF 100 * exact.num = KeywordThresholdPct * num_keywords * exact.den
    THEN FloatGeq(FloatDivInt(ChunkRatioSum(keyword_words, text_words, i, 1,
                                            FloatZero), num_keywords),
                  threshold)
    ELSE 100 * exact.num > KeywordThresholdPct * num_keywords * exact.den

AverageReachesThreshold(keyword_words, text_words, i) ==
    CompareAverage(keyword_words, text_words, i, Len(keyword_words),
                   ExactRatioSum(keyword_words, text_words, i, 1))

\* a scan that takes the chunks up to the last text word, without
\* subtracting num_keywords, and so reads past the end of the text
RECURSIVE MultiKeywordScanPastEnd(_, _, _)
MultiKeywordScanPastEnd(keyword_words, text_words, i) ==
    LET num_keywords == Len(keyword_words)
    IN  IF i >= Len(text_words)
        THEN Return(0)
        ELSE IF num_keywords = 0
             THEN Raise(ZeroDivisionError)
             ELSE IF i + num_keywords > Len(text_words)
                  THEN Raise("IndexError")
                  ELSE IF AverageReachesThreshold(keyword_words, text_words, i)
                       THEN Return(1)
                       ELSE MultiKeywordScanPastEnd(keyword_words, text_words, i + 1)

\* the loop of the multiple-keyword branch, from chunk offset i on;
\* range(len(text_words) - num_keywords + 1)
RECURSIVE MultiKeywordScan(_, _, _)
MultiKeywordScan(keyword_words, text_words, i) ==
    LET num_keywords == Len(keyword_words)
    IN  IF i >= Len(text_words) - num_keywords + 1
        THEN Return(0)                  \* return number_of_hits
        ELSE IF num_keywords = 0
             THEN Raise(ZeroDivisionError)   \* avg_ratio /= num_keywords
             ELSE IF AverageReachesThreshold(keyword_words, text_words, i)
                  THEN Return(1)
                  ELSE MultiKeywordScan(keyword_words, text_words, i + 1)

fuzzy_match_keyword(text, keyword) ==
    LET t == Preprocess(text)
        kw == Preprocess(keyword)
        text_words == Split(t)
        keyword_words == Split(kw)
    IN  IF Len(keyword_words) = 1
        THEN Return(SingleKeywordScan(kw, text_words, 1))
        ELSE MultiKeywordScan(keyword_words, text_words, 0)

----------------------------------------------------------------------------
(* utils.chunk_keywords(keywords)                                          *)

\* an inner loop that adds the word pairs at every second word only
RECURSIVE ChunkWordsStrideTwo(_, _, _)
ChunkWordsStrideTwo(words, i, chunked_keywords) ==
    IF i > Len(words) THEN chunked_keywords
    ELSE ChunkWordsStrideTwo(words, i + 1,
            chunked_keywords \cup {words[i]}
                \cup (IF i < Len(words) /\ i % 2 = 1
                      THEN {words[i] \o <<" ">> \o words[i + 1]}
                      ELSE {}))

\* `for i, word in enumerate(words)` from the word at position i on (the
\* first word is at position 1 here and at index 0 in the code)
RECURSIVE ChunkWords(_, _, _)
ChunkWords(words, i, chunked_keywords) ==
    IF i > Len(words) THEN chunked_keywords
    ELSE ChunkWords(words, i + 1,
            chunked_keywords \cup {words[i]}           \* add the single word
                \cup (IF i < Len(words)                \* not the last word
                      THEN {words[i] \o <<" ">> \o words[i + 1]}
                      ELSE {}))

\* `for keyword in keywords` from keywords[n] on
RECURSIVE ChunkLoop(_, _, _)
ChunkLoop(keywords, n, chunked_keywords) ==
    IF n > Len(keywords) THEN chunked_keywords
    ELSE ChunkLoop(keywords, n + 1,
                   ChunkWords(Split(keywords[n]), 1, chunked_keywords))

chunk_keywords(keywords) == ChunkLoop(keywords, 1, {})

----------------------------------------------------------------------------
(* utils.fuzzy_match_two_sets_keywords(set_1, set_2, threshold=0.85): the  *)
(* second definition, which replaces the first at import.                 *)

SetThresholdPct == 85

fuzzy_match_two_sets_keywords(keywords_set_1, keywords_set_2) ==
    LET set_1 == {Lower(k) : k \in keywords_set_1}
        set_2 == {Lower(k) : k \in keywords_set_2}
    IN  \E keyword_1 \in set_1 : \E keyword_2 \in set_2 :
            AtLeast(ratio(keyword_1, keyword_2), SetThresholdPct)

\* The orders in which a `for` loop can iterate over the set S: the order of
\* a Python set of str depends on the hashes, which change from run to run.
IterationOrders(S) == {order \in [1..Cardinality(S) -> S] : Range(order) = S}

\* nested loops that give up on keyword_1 when its first keyword_2 fails
RECURSIVE SetScanFirstOnly(_, _, _, _)
SetScanFirstOnly(order_1, order_2, i, j) ==
    IF i > Len(order_1) \/ order_2 = <<>> THEN FALSE
    ELSE IF AtLeast(ratio(order_1[i], order_2[1]), SetThresholdPct) THEN TRUE
    ELSE SetScanFirstOnly(order_1, order_2, i + 1, 1)

\* the nested loops of fuzzy_match_two_sets_keywords over the lowercased sets,
\* iterated in the orders order_1 and order_2, from the pair (i, j) on
RECURSIVE SetScan(_, _, _, _)
SetScan(order_1, order_2, i, j) ==
    IF i > Len(order_1) THEN FALSE                  \* return False
    ELSE IF j > Len(order_2) THEN SetScan(order_1, order_2, i + 1, 1)
    ELSE IF AtLeast(ratio(order_1[i], order_2[j]), SetThresholdPct)
         THEN TRUE                                  \* return True
         ELSE SetScan(order_1, order_2, i, j + 1)

----------------------------------------------------------------------------
(* The keywords JSON file: group name -> {"synonyms": [...], "score": n}.   *)
(* A dict keeps insertion order, so the taxonomy is the sequence of its    *)
(* groups; a key that is absent from a group has its has_ flag FALSE.      *)

Group(syn, sc) ==
    [has_synonyms |-> TRUE, synonyms |-> syn, has_score |-> TRUE, score |-> sc]

GroupPool ==
    { Group(<< <<"a", "b">>, <<"a", "b", "b">> >>, 25),   \* ["ab", "abb"], 25
      Group(<< <<"a", "b">>, <<"a", "b", "b">> >>, 60),   \* ["ab", "abb"], 60
      Group(<< <<"a", " ", "b">> >>, 25),                 \* ["a b"], 25
      Group(<< <<"a", " ", "b">> >>, -30),                \* ["a b"], -30
      Group(<< <<>> >>, 25),                              \* [""], 25
      [has_synonyms |-> FALSE, synonyms |-> <<>>,
       has_score |-> TRUE, score |-> 25],                 \* no "synonyms" key
      [has_synonyms |-> TRUE, synonyms |-> << <<"a", "b">>, <<"a", "b", "b">> >>,
       has_score |-> FALSE, score |-> 0],                 \* no "score" key
      [has_synonyms |-> TRUE, synonyms |-> << <<>> >>,
       has_score |-> FALSE, score |-> 0] }                \* [""], no "score" key

Taxonomies == SeqsUpTo(GroupPool, MaxGroups)

\* self.target_keywords[keygroup].get('synonyms', [])
GetSynonyms(group) == IF group.has_synonyms THEN group.synonyms ELSE <<>>

\* self.target_keywords[keygroup].get("score", 0)
GetScore(group) == IF group.has_score THEN group.score ELSE 0

\* a lookup that inserts the default under an absent key, as
\* dict.setdefault(key, default) does
GroupAfterSetDefault(group) ==
    [group EXCEPT !.has_synonyms = TRUE, !.has_score = TRUE]

\* the group after .get('synonyms', []) and .get("score", 0): dict.get returns
\* the default for an absent key and does not insert it
GroupAfterGet(group) == group

\* self.target_keywords after the loop `for keygroup in self.target_keywords`
\* of _text_score or of _ai_keywords_score.  The loops assign to no key of
\* the dict, the synonyms are passed on as strings (fuzzy_match_keyword) or
\* are copied into a new set before they are used
\* (fuzzy_match_two_sets_keywords), so that the lookups are all that touches
\* the dict.
TargetKeywordsAfterLoop(target_keywords) ==
    [g \in 1..Len(target_keywords) |-> GroupAfterGet(target_keywords[g])]

----------------------------------------------------------------------------
(* analysis/scorer.py: DecarbonizationScorer                               *)

\* __init__: both counters start at 0
NewScorer == [text_score |-> 0, ai_keywords_score |-> 0]

AssertionError == "AssertionError"
FileNotFoundError == "FileNotFoundError"

\* an __init__ that goes on with an empty taxonomy when the file is missing
InitWithEmptyDefault(exists, content, optimized) ==
    [raised |-> FALSE, value |-> "",
     target_keywords |-> IF exists THEN content ELSE <<>>,
     scorer |-> NewScorer]

\* DecarbonizationScorer(keywords_json), where `exists` tells whether the file
\* is there and `content` is what it holds.  `python -O` removes the assert
\* statement (optimized); _load_keywords then opens the file, and open()
\* raises FileNotFoundError.  Either way __init__ ends before
\* self.target_keywords and the two counters are assigned.
__init__(exists, content, optimized) ==
    IF ~optimized /\ ~exists
    THEN [raised |-> TRUE, value |-> AssertionError,
          target_keywords |-> <<>>, scorer |-> NewScorer]
    ELSE IF ~exists
    THEN [raised |-> TRUE, value |-> FileNotFoundError,
          target_keywords |-> <<>>, scorer |-> NewScorer]
    ELSE [raised |-> FALSE, value |-> "",
          target_keywords |-> content, scorer |-> NewScorer]

\* the default of the parameter `weight` of _ai_keywords_score
AiKeywordsWeight == 2

\* _text_score(text), from synonym k of group g on, with self.text_score = acc.
\* An exception of fuzzy_match_keyword ends the loops where they stand.
RECURSIVE TextScoreLoop(_, _, _, _, _)
TextScoreLoop(target_keywords, text, g, k, acc) ==
    IF g > Len(target_keywords) THEN [raised |-> FALSE, text_score |-> acc]
    ELSE LET group_keywords == GetSynonyms(target_keywords[g])
             group_score == GetScore(target_keywords[g])
         IN  IF k > Len(group_keywords)
             THEN TextScoreLoop(target_keywords, text, g + 1, 1, acc)
             ELSE LET hits == fuzzy_match_keyword(text, group_keywords[k])
                  IN  IF hits.raised
                      THEN [raised |-> TRUE, text_score |-> acc]
                      ELSE TextScoreLoop(target_keywords, text, g, k + 1,
                                         acc + hits.value * group_score)

\* a _text_score that starts from 0 at every call
TextScoreFromZero(target_keywords, text, acc) ==
    TextScoreLoop(target_keywords, text, 1, 1, 0)

_text_score(target_keywords, text, acc) == TextScoreLoop(target_keywords, text, 1, 1, acc)

\* _ai_keywords_score(ai_gen_keywords), from group g on, with
\* self.ai_keywords_score = acc
RECURSIVE AiKeywordsLoop(_, _, _, _)
AiKeywordsLoop(target_keywords, ai_gen_keywords, g, acc) ==
    IF g > Len(target_keywords) THEN acc
    ELSE LET group_keywords == GetSynonyms(target_keywords[g])
             group_score == GetScore(target_keywords[g])
         IN  AiKeywordsLoop(target_keywords, ai_gen_keywords, g + 1,
                IF fuzzy_match_two_sets_keywords(chunk_keywords(ai_gen_keywords),
                                                 Range(group_keywords))
                THEN acc + group_score * AiKeywordsWeight
                ELSE acc)

\* an _ai_keywords_score that adds the group's score once per matching synonym
RECURSIVE AiKeywordsPerSynonym(_, _, _, _, _)
AiKeywordsPerSynonym(target_keywords, ai_gen_keywords, g, k, acc) ==
    IF g > Len(target_keywords) THEN acc
    ELSE LET group_keywords == GetSynonyms(target_keywords[g])
             group_score == GetScore(target_keywords[g])
         IN  IF k > Len(group_keywords)
             THEN AiKeywordsPerSynonym(target_keywords, ai_gen_keywords, g + 1, 1, acc)
             ELSE AiKeywordsPerSynonym(target_keywords, ai_gen_keywords, g, k + 1,
                    IF fuzzy_match_two_sets_keywords(chunk_keywords(ai_gen_keywords),
                                                     {group_keywords[k]})
                    THEN acc + group_score * AiKeywordsWeight
                    ELSE acc)

AiKeywordsScorePerSynonym(target_keywords, ai_gen_keywords, acc) ==
    AiKeywordsPerSynonym(target_keywords, ai_gen_keywords, 1, 1, acc)

_ai_keywords_score(target_keywords, ai_gen_keywords, acc) ==
    AiKeywordsLoop(target_keywords, ai_gen_keywords, 1, acc)

\* The argument ai_gen_keywords: None, or a list of strings.
None == [given |-> FALSE, list |-> <<>>]
List(l) == [given |-> TRUE, list |-> l]

\* `if ai_gen_keywords:`
Truthy(ai_gen_keywords) == ai_gen_keywords.given /\ ai_gen_keywords.list # <<>>

\* a __call__ that starts ai_keywords_score from 0 when no keywords are given
CallResettingAiScore(target_keywords, sc, text, ai_gen_keywords) ==
    LET t == _text_score(target_keywords, text, sc.text_score)
    IN  IF t.raised
        THEN [raised |-> TRUE, scorer |-> [sc EXCEPT !.text_score = t.text_score]]
        ELSE [raised |-> FALSE,
              scorer |-> [text_score |-> t.text_score,
                          ai_keywords_score |->
                              IF Truthy(ai_gen_keywords)
                              THEN _ai_keywords_score(target_keywords,
                                       ai_gen_keywords.list, sc.ai_keywords_score)
                              ELSE 0]]

\* a __call__ that scores from 0 and returns the scores of this call alone
CallReturningFreshScores(target_keywords, sc, text, ai_gen_keywords) ==
    LET t == _text_score(target_keywords, text, 0)
    IN  IF t.raised
        THEN [raised |-> TRUE, scorer |-> [sc EXCEPT !.text_score = t.text_score]]
        ELSE [raised |-> FALSE,
              scorer |-> [text_score |-> t.text_score,
                          ai_keywords_score |->
                              IF Truthy(ai_gen_keywords)
                              THEN _ai_keywords_score(target_keywords,
                                       ai_gen_keywords.list, 0)
                              ELSE 0]]

\* __call__(text, ai_gen_keywords) on the scorer sc: the scorer after the call,
\* and whether the call raised; a call that returns returns
\* (sc.text_score, sc.ai_keywords_score) of the scorer after it.
__call__(target_keywords, sc, text, ai_gen_keywords) ==
    LET t == _text_score(target_keywords, text, sc.text_score)
    IN  IF t.raised
        THEN [raised |-> TRUE, scorer |-> [sc EXCEPT !.text_score = t.text_score]]
        ELSE [raised |-> FALSE,
              scorer |-> [text_score |-> t.text_score,
                          ai_keywords_score |->
                              IF Truthy(ai_gen_keywords)
                              THEN _ai_keywords_score(target_keywords,
                                       ai_gen_keywords.list, sc.ai_keywords_score)
                              ELSE sc.ai_keywords_score]]

----------------------------------------------------------------------------
(* analysis/case_study.py: CaseStudy                                       *)

Max(a, b) == IF a >= b THEN a ELSE b
Min(a, b) == IF a <= b THEN a ELSE b

\* a clamp that forgets the lower bound
ClampUpperOnly(score) == Min(100, score)

\* max(0, min(100, score))
Clamp(score) == Max(0, Min(100, score))

\* a classification whose comparisons are strict
ClassifyStrict(relevance_score) ==
    IF relevance_score > 50 THEN "Relevant"
    ELSE IF relevance_score > 25 THEN "Possibly Relevant"
    ELSE "Unrelated"

\* the if / elif / else of _determine_relevance
Classify(relevance_score) ==
    IF relevance_score >= 50 THEN "Relevant"
    ELSE IF relevance_score >= 25 THEN "Possibly Relevant"
    ELSE "Unrelated"

\* a working score that adds the two raw scores
WorkingScoreSum(sc) == sc.text_score + sc.ai_keywords_score

\* max(self.scorer(self.text, self.keywords)) of a call that returned
WorkingScore(sc) == Max(sc.text_score, sc.ai_keywords_score)

\* `if self.relevance_score >= 50: self._summarize()`
SummarizeThreshold == 50

\* a test that also sends the Possibly Relevant documents to _summarize
ShouldSummarizeFrom25(relevance_score) == relevance_score >= 25

\* _analyze_content: `if self.relevance_score >= 50:`
ShouldSummarize(relevance_score) == relevance_score >= SummarizeThreshold

\* a CaseStudy that is handed the scorer of the case study before it
NewCaseStudySharedScorer ==
    [pc |-> "_get_html_content",
     scorer |-> IF case_studies = <<>> THEN NewScorer
                ELSE case_studies[Len(case_studies)].scorer,
     scorer_calls |-> 0,
     html_content |-> "",
     text |-> <<>>,
     summary |-> "",
     keywords |-> <<>>,
     relevant_to_decarbonization |-> "None",
     relevance_score |-> 0]

\* the fields __init__ assigns before _analyze_content()
NewCaseStudy ==
    [pc |-> "_get_html_content",
     scorer |-> NewScorer,
     scorer_calls |-> 0,
     html_content |-> "",
     text |-> <<>>,
     summary |-> "",
     keywords |-> <<>>,
     relevant_to_decarbonization |-> "None",
     relevance_score |-> 0]

\* no CaseStudy is under construction
NoCase ==
    [pc |-> "none",
     scorer |-> [text_score |-> 0, ai_keywords_score |-> 0],
     scorer_calls |-> 0,
     html_content |-> "",
     text |-> <<>>,
     summary |-> "",
     keywords |-> <<>>,
     relevant_to_decarbonization |-> "None",
     relevance_score |-> 0]

\* _determine_relevance() on the case study c
_determine_relevance(target_keywords, c) ==
    LET r == __call__(target_keywords, c.scorer, c.text, List(c.keywords))
        relevance_score == Clamp(WorkingScore(r.scorer))
    IN  IF r.raised
        THEN [raised |-> TRUE,
              case |-> [c EXCEPT !.scorer = r.scorer,
                                 !.scorer_calls = c.scorer_calls + 1]]
        ELSE [raised |-> FALSE,
              case |-> [c EXCEPT !.scorer = r.scorer,
                                 !.scorer_calls = c.scorer_calls + 1,
                                 !.relevance_score = relevance_score,
                                 !.relevant_to_decarbonization = Classify(relevance_score)]]

----------------------------------------------------------------------------
(* Values of the variables a specification does not use.                   *)

NoMatch == [pc |-> "idle", text |-> <<>>, keyword |-> <<>>, result |-> Return(0)]

NoUtil == [pc |-> "idle", op |-> "none", arg_1 |-> <<>>, arg_2 |-> <<>>,
           order_1 |-> <<>>, order_2 |-> <<>>, result |-> "none"]

NoCall == [n |-> 0, op |-> "none", text |-> <<>>, keywords |-> None,
           raised |-> FALSE]

\* No text-scoring call yet.  Afterwards: the text of the first one, how many
\* there were, and whether all of them returned and were given that same text.
NoHistory == [n |-> 0, text |-> <<>>, uniform |-> TRUE]

Record(h, text, raised) ==
    [n |-> h.n + 1,
     text |-> IF h.n = 0 THEN text ELSE h.text,
     uniform |-> h.uniform /\ ~raised /\ (h.n = 0 \/ h.text = text)]

IdleMatch == match = NoMatch /\ util = NoUtil

NoConstruction == [pc |-> "idle", exists |-> TRUE, error |-> ""]

IdleScorer ==
    /\ construction = NoConstruction
    /\ scorer = NewScorer
    /\ call = NoCall
    /\ history = NoHistory

IdleSystem ==
    /\ generate_keywords = FALSE
    /\ articles = 0
    /\ case_ = NoCase
    /\ case_studies = <<>>
    /\ status = "idle"

\* no BeautifulScraper is being constructed
NoScraper ==
    [pc |-> "idle", retries |-> 0, retry_delay |-> 0, verbose |-> FALSE,
     attempts |-> 0, failures |-> <<>>, slept |-> 0, printed |-> 0,
     body |-> "unset", articles |-> "unset", error |-> ""]

IdleScraper == scraper = NoScraper

----------------------------------------------------------------------------
(* SpecMatch: fuzzy_match_keyword applied to every text and keyword of the *)
(* bounded alphabet.                                                       *)

\* A text is up to MaxTextWords tokens joined by single spaces; the empty
\* token gives leading, trailing and doubled spaces.
TokenPool ==
    { <<>>, <<"a">>, <<"b">>, <<"a", "b">>, <<"a", "b", "b">>, <<"B", ".">> }

RECURSIVE Join(_)
Join(tokens) ==
    IF tokens = <<>> THEN <<>>
    ELSE IF Len(tokens) = 1 THEN tokens[1]
    ELSE tokens[1] \o <<" ">> \o Join(Tail(tokens))

MatchTexts == {Join(tokens) : tokens \in SeqsUpTo(TokenPool, MaxTextWords)}
MatchKeywords == SeqsUpTo(Alphabet, MaxKeyLen)

\* Keywords of up to MaxKeyWords words against texts of up to MaxTextWords
\* words; the ratios of a keyword word to a text word are 1, 4/5, 2/3, 1/2
\* and 2/5.
KeywordWordPool == { <<"a">>, <<"a", "b">> }
TextWordPool == { <<"a">>, <<"a", "b", "b">>, <<"b", "b", "a">> }
PhraseKeywords == {Join(words) : words \in SeqsUpTo(KeywordWordPool, MaxKeyWords)}
PhraseTexts == {Join(words) : words \in SeqsUpTo(TextWordPool, MaxTextWords)}

InitMatch ==
    /\ match \in [pc : {"call"}, text : MatchTexts, keyword : MatchKeywords,
                  result : {Return(0)}]
             \cup [pc : {"call"}, text : PhraseTexts, keyword : PhraseKeywords,
                   result : {Return(0)}]
    /\ util = NoUtil
    /\ taxonomy = <<>>
    /\ IdleScorer
    /\ IdleSystem
    /\ IdleScraper

CallFuzzyMatch ==
    /\ match.pc = "call"
    /\ match' = [match EXCEPT !.pc = "done",
                              !.result = fuzzy_match_keyword(match.text, match.keyword)]
    /\ UNCHANGED <<scraper, util, taxonomy, scorerVars, systemVars>>

NextMatch == CallFuzzyMatch

SpecMatch == InitMatch /\ [][NextMatch]_vars

----------------------------------------------------------------------------
(* SpecUtils: fuzzy_match_two_sets_keywords, chunk_keywords and            *)
(* SequenceMatcher.ratio applied to bounded inputs.                        *)

\* keywords given to fuzzy_match_two_sets_keywords
SetKeywordPool ==
    { <<>>,                         \* ""
      <<"b">>,                      \* "b"
      <<"a", "b">>,                 \* "ab"
      <<"a", "B">>,                 \* "aB"
      <<"a", "b", "b">>,            \* "abb"
      <<"a", "b", "b", "a">> }      \* "abba"

KeywordSets == {S \in SUBSET SetKeywordPool : Cardinality(S) <= MaxSetSize}

\* keywords given to chunk_keywords
PhrasePool ==
    { <<>>,                                     \* ""
      <<"a">>,                                  \* "a"
      <<"a", " ", "b">>,                        \* "a b"
      <<" ", "a", " ", " ", "b">>,              \* " a  b"
      <<"b", " ", "a", " ", "a", "b">>,         \* "b a ab"
      <<"B", " ", "a">> }                       \* "B a"

PhraseLists == SeqsUpTo(PhrasePool, MaxPhrases)

\* strings given to SequenceMatcher(None, a, b)
RatioStrings == SeqsUpTo(Letters, MaxRatioLen)

UtilCall(op, arg_1, arg_2) ==
    [pc |-> "call", op |-> op, arg_1 |-> arg_1, arg_2 |-> arg_2,
     order_1 |-> <<>>, order_2 |-> <<>>, result |-> "none"]

InitUtils ==
    /\ util \in {UtilCall("fuzzy_match_two_sets_keywords", set_1, set_2) :
                     set_1 \in KeywordSets, set_2 \in KeywordSets}
               \cup {UtilCall("chunk_keywords", keywords, <<>>) :
                        keywords \in PhraseLists}
               \cup {UtilCall("ratio", a, b) :
                        a \in RatioStrings, b \in RatioStrings}
    /\ match = NoMatch
    /\ taxonomy = <<>>
    /\ IdleScorer
    /\ IdleSystem
    /\ IdleScraper

\* fuzzy_match_two_sets_keywords(keywords_set_1, keywords_set_2)
CallSetMatch ==
    /\ util.pc = "call"
    /\ util.op = "fuzzy_match_two_sets_keywords"
    /\ \E order_1 \in IterationOrders({Lower(keyword) : keyword \in util.arg_1}) :
       \E order_2 \in IterationOrders({Lower(keyword) : keyword \in util.arg_2}) :
          util' = [util EXCEPT !.pc = "done",
                               !.order_1 = order_1,
                               !.order_2 = order_2,
                               !.result = SetScan(order_1, order_2, 1, 1)]
    /\ UNCHANGED <<scraper, match, taxonomy, scorerVars, systemVars>>

\* chunk_keywords(keywords)
CallChunkKeywords ==
    /\ util.pc = "call"
    /\ util.op = "chunk_keywords"
    /\ util' = [util EXCEPT !.pc = "done", !.result = chunk_keywords(util.arg_1)]
    /\ UNCHANGED <<scraper, match, taxonomy, scorerVars, systemVars>>

\* SequenceMatcher(None, a, b).ratio()
CallRatio ==
    /\ util.pc = "call"
    /\ util.op = "ratio"
    /\ util' = [util EXCEPT !.pc = "done", !.result = ratio(util.arg_1, util.arg_2)]
    /\ UNCHANGED <<scraper, match, taxonomy, scorerVars, systemVars>>

NextUtils == CallSetMatch \/ CallChunkKeywords \/ CallRatio

SpecUtils == InitUtils /\ [][NextUtils]_vars

----------------------------------------------------------------------------
(* SpecScorer: one DecarbonizationScorer, constructed from the keywords    *)
(* file, on which _text_score, _ai_keywords_score and __call__ are called. *)

ScorerTexts ==
    { <<"a", "B", ".">>,          \* "aB."
      <<"a", " ", "b">> }         \* "a b"

KeywordLists ==
    { << <<"a", "b", "b", " ", "a", "b">> >>,   \* ["abb ab"]
      << <<"a", " ", "b">> >> }                 \* ["a b"]

\* The keywords file exists and holds a taxonomy, or it does not exist.
InitScorer ==
    /\ \/ /\ taxonomy \in Taxonomies
          /\ construction = [pc |-> "__init__", exists |-> TRUE, error |-> ""]
       \/ /\ taxonomy = <<>>
          /\ construction = [pc |-> "__init__", exists |-> FALSE, error |-> ""]
    /\ scorer = NewScorer
    /\ call = NoCall
    /\ history = NoHistory
    /\ IdleMatch
    /\ IdleSystem
    /\ IdleScraper

\* DecarbonizationScorer(keywords_json)
Construct ==
    /\ construction.pc = "__init__"
    /\ \E optimized \in BOOLEAN :
       \E r \in {__init__(construction.exists, taxonomy, optimized)} :
          IF r.raised
          THEN /\ construction' = [construction EXCEPT !.pc = "raised",
                                                       !.error = r.value]
               /\ UNCHANGED <<taxonomy, scorer>>
          ELSE /\ construction' = [construction EXCEPT !.pc = "constructed"]
               /\ taxonomy' = r.target_keywords
               /\ scorer' = r.scorer
    /\ UNCHANGED <<scraper, call, history, matchVars, systemVars>>

ScoreText ==
    /\ construction.pc = "constructed"
    /\ call.n < MaxCalls
    /\ \E text \in ScorerTexts :
          \E r \in {_text_score(taxonomy, text, scorer.text_score)} :
              /\ scorer' = [scorer EXCEPT !.text_score = r.text_score]
              /\ call' = [n |-> call.n + 1, op |-> "_text_score", text |-> text,
                          keywords |-> None, raised |-> r.raised]
              /\ history' = Record(history, text, r.raised)
    /\ taxonomy' = TargetKeywordsAfterLoop(taxonomy)
    /\ UNCHANGED <<scraper, construction, matchVars, systemVars>>

ScoreAiKeywords ==
    /\ construction.pc = "constructed"
    /\ call.n < MaxCalls
    /\ \E ai_gen_keywords \in KeywordLists :
          /\ scorer' = [scorer EXCEPT !.ai_keywords_score =
                           _ai_keywords_score(taxonomy, ai_gen_keywords,
                                              scorer.ai_keywords_score)]
          /\ call' = [n |-> call.n + 1, op |-> "_ai_keywords_score", text |-> <<>>,
                      keywords |-> List(ai_gen_keywords), raised |-> FALSE]
    /\ taxonomy' = TargetKeywordsAfterLoop(taxonomy)
    /\ UNCHANGED <<scraper, construction, history, matchVars, systemVars>>

Evaluate ==
    /\ construction.pc = "constructed"
    /\ call.n < MaxCalls
    /\ \E text \in ScorerTexts :
       \E ai_gen_keywords \in {None, List(<<>>)} \cup {List(l) : l \in KeywordLists} :
          \E r \in {__call__(taxonomy, scorer, text, ai_gen_keywords)} :
              /\ scorer' = r.scorer
              /\ call' = [n |-> call.n + 1, op |-> "__call__", text |-> text,
                          keywords |-> ai_gen_keywords, raised |-> r.raised]
              /\ history' = Record(history, text, r.raised)
    /\ taxonomy' = TargetKeywordsAfterLoop(taxonomy)
    /\ UNCHANGED <<scraper, construction, matchVars, systemVars>>

NextScorer == Construct \/ ScoreText \/ ScoreAiKeywords \/ Evaluate

SpecScorer == InitScorer /\ [][NextScorer]_vars

----------------------------------------------------------------------------
(* Spec: IsptHeatScraper.run(), which constructs one CaseStudy per entry   *)
(* of scraper.articles; CaseStudy.__init__ runs _analyze_content, one      *)
(* action per method it calls.  An exception is caught nowhere: it ends    *)
(* the run.                                                                *)

Init ==
    /\ taxonomy \in Taxonomies
    /\ generate_keywords = FALSE
    /\ articles = 0
    /\ case_ = NoCase
    /\ case_studies = <<>>
    /\ status = "idle"
    /\ IdleMatch
    /\ IdleScorer
    /\ IdleScraper

\* run(generate_ai_keywords) up to the loop of _proccess_case_studies
Run ==
    /\ status = "idle"
    /\ generate_keywords' \in BOOLEAN
    /\ articles' \in 0..MaxArticles
    /\ status' = "running"
    /\ UNCHANGED <<scraper, case_, case_studies, taxonomy, matchVars, scorerVars>>

\* CaseStudy.__init__ up to the call of _analyze_content: scorer(target_keywords_json)
\* constructs a DecarbonizationScorer of its own
ConstructCaseStudy ==
    /\ status = "running"
    /\ case_.pc = "none"
    /\ articles > 0
    /\ articles' = articles - 1
    /\ case_' = NewCaseStudy
    /\ UNCHANGED <<scraper, generate_keywords, case_studies, status, taxonomy,
                   matchVars, scorerVars>>

GetHtmlContent ==
    /\ status = "running"
    /\ case_.pc = "_get_html_content"
    /\ case_' = [case_ EXCEPT !.html_content = "body", !.pc = "_get_text"]
    /\ UNCHANGED <<scraper, generate_keywords, articles, case_studies, status, taxonomy,
                   matchVars, scorerVars>>

\* _get_text, then `if self.generate_keywords:`
GetText ==
    /\ status = "running"
    /\ case_.pc = "_get_text"
    /\ \E text \in ScorerTexts :
          case_' = [case_ EXCEPT !.text = text,
                                 !.pc = IF generate_keywords THEN "_extract_keywords"
                                        ELSE "_determine_relevance"]
    /\ UNCHANGED <<scraper, generate_keywords, articles, case_studies, status, taxonomy,
                   matchVars, scorerVars>>

ExtractKeywords ==
    /\ status = "running"
    /\ case_.pc = "_extract_keywords"
    /\ \E keywords \in KeywordLists :
          case_' = [case_ EXCEPT !.keywords = keywords, !.pc = "_determine_relevance"]
    /\ UNCHANGED <<scraper, generate_keywords, articles, case_studies, status, taxonomy,
                   matchVars, scorerVars>>

\* _determine_relevance, then `if self.relevance_score >= 50:`
DetermineRelevance ==
    /\ status = "running"
    /\ case_.pc = "_determine_relevance"
    /\ \E r \in {_determine_relevance(taxonomy, case_)} :
          IF r.raised
          THEN /\ case_' = r.case
               /\ status' = "raised"
          ELSE /\ case_' = [r.case EXCEPT !.pc =
                               IF ShouldSummarize(r.case.relevance_score)
                               THEN "_summarize" ELSE "constructed"]
               /\ status' = status
    /\ UNCHANGED <<scraper, generate_keywords, articles, case_studies, taxonomy,
                   matchVars, scorerVars>>

Summarize ==
    /\ status = "running"
    /\ case_.pc = "_summarize"
    /\ case_' = [case_ EXCEPT !.summary = "summary", !.pc = "constructed"]
    /\ UNCHANGED <<scraper, generate_keywords, articles, case_studies, status, taxonomy,
                   matchVars, scorerVars>>

\* requests, BeautifulSoup or a model raises
CollaboratorRaises ==
    /\ status = "running"
    /\ case_.pc \in {"_get_html_content", "_get_text", "_extract_keywords", "_summarize"}
    /\ status' = "raised"
    /\ UNCHANGED <<scraper, generate_keywords, articles, case_, case_studies, taxonomy,
                   matchVars, scorerVars>>

\* self.case_studies.append(case_)
AppendCaseStudy ==
    /\ status = "running"
    /\ case_.pc = "constructed"
    /\ case_studies' = Append(case_studies, case_)
    /\ case_' = NoCase
    /\ UNCHANGED <<scraper, generate_keywords, articles, status, taxonomy,
                   matchVars, scorerVars>>

\* the loop of _proccess_case_studies ends
Finish ==
    /\ status = "running"
    /\ case_.pc = "none"
    /\ articles = 0
    /\ status' = "done"
    /\ UNCHANGED <<scraper, generate_keywords, articles, case_, case_studies, taxonomy,
                   matchVars, scorerVars>>

Next ==
    \/ Run
    \/ ConstructCaseStudy
    \/ GetHtmlContent
    \/ GetText
    \/ ExtractKeywords
    \/ DetermineRelevance
    \/ Summarize
    \/ CollaboratorRaises
    \/ AppendCaseStudy
    \/ Finish

Spec == Init /\ [][Next]_vars

----------------------------------------------------------------------------
(* SpecScraper: BeautifulScraper(url, retries, retry_delay, verbose).      *)
(* __init__ calls _fetch_page, whose loop calls get_page_body once per     *)
(* iteration; one action per iteration.                                    *)

\* what get_page_body raises that is a requests.RequestException:
\* requests.get raises Timeout or ConnectionError, raise_for_status HTTPError
RequestExceptions == {"Timeout", "HTTPError"}

\* what it raises that is not one: remove_unwanted_elements(None), for a page
\* without a body element
AttributeError == "AttributeError"

\* the parsed body that get_page_body returns
Body == "body"

\* the outcomes of one get_page_body(self.url)
GetPageBodyOutcomes ==
    {Return(Body)} \cup {Raise(e) : e \in RequestExceptions \cup {AttributeError}}

\* log_and_print(message, verbose=self.verbose) prints when verbose
LogAndPrint(s) == IF s.verbose THEN s.printed + 1 ELSE s.printed

\* a loop that makes one attempt more than `retries`
LoopGoesOnInclusive(s) == s.attempts <= s.retries

\* `for _ in range(self.retries)` has an iteration left
LoopGoesOn(s) == s.attempts < s.retries

\* __init__ after _fetch_page has returned `body`:
\* self.body = self._fetch_page(); self.articles = dict()
Constructed(s, body) ==
    [s EXCEPT !.pc = "constructed", !.body = body, !.articles = "dict()"]

InitScraper ==
    /\ \E retries \in 0..MaxRetries, retry_delay \in 0..MaxRetryDelay,
          verbose \in BOOLEAN :
          scraper = [NoScraper EXCEPT !.pc = "_fetch_page", !.retries = retries,
                                      !.retry_delay = retry_delay,
                                      !.verbose = verbose]
    /\ taxonomy = <<>>
    /\ IdleMatch
    /\ IdleScorer
    /\ IdleSystem

\* one iteration of the loop of _fetch_page: `return body`, or the handler of
\* requests.RequestException (log_and_print, time.sleep); any other exception
\* leaves _fetch_page and __init__
FetchAttempt ==
    /\ scraper.pc = "_fetch_page"
    /\ LoopGoesOn(scraper)
    /\ \E r \in GetPageBodyOutcomes :
       LET s == [scraper EXCEPT !.attempts = @ + 1]
       IN  IF ~r.raised
           THEN scraper' = Constructed(s, r.value)
           ELSE IF r.value \in RequestExceptions
           THEN scraper' = [s EXCEPT !.failures = Append(@, r.value),
                                     !.printed = LogAndPrint(s),
                                     !.slept = @ + s.retry_delay]
           ELSE scraper' = [s EXCEPT !.pc = "raised", !.error = r.value]
    /\ UNCHANGED <<taxonomy, matchVars, scorerVars, systemVars>>

\* the loop has ended: log_and_print, and _fetch_page returns None
FetchGivesUp ==
    /\ scraper.pc = "_fetch_page"
    /\ ~LoopGoesOn(scraper)
    /\ scraper' = Constructed([scraper EXCEPT !.printed = LogAndPrint(scraper)], "None")
    /\ UNCHANGED <<taxonomy, matchVars, scorerVars, systemVars>>

NextScraper == FetchAttempt \/ FetchGivesUp

SpecScraper == InitScraper /\ [][NextScraper]_vars

\* the interpreter goes on with a call that has not ended
SpecScraperFair == SpecScraper /\ WF_vars(NextScraper)

----------------------------------------------------------------------------
(* Properties of Spec.                                                     *)

\* the CaseStudy objects that exist: the appended ones and the one under
\* construction
CaseStudies ==
    Range(case_studies) \cup (IF case_.pc = "none" THEN {} ELSE {case_})

\* _determine_relevance has returned on c
Determined(c) == c.pc \in {"_summarize", "constructed"}

\* C1: once _determine_relevance has returned, the label is decided by the
\* relevance score alone: "Relevant" exactly from 50 up, "Possibly Relevant"
\* exactly from 25 to 49, "Unrelated" exactly below 25.
C1_LabelIsFunctionOfScore ==
    \A c \in CaseStudies :
        Determined(c) =>
            /\ (c.relevant_to_decarbonization = "Relevant") <=> (c.relevance_score >= 50)
            /\ (c.relevant_to_decarbonization = "Possibly Relevant")
                   <=> (c.relevance_score >= 25 /\ c.relevance_score < 50)
            /\ (c.relevant_to_decarbonization = "Unrelated") <=> (c.relevance_score < 25)

\* both boundaries are reached: one case study at 25 and one at 50
C1_Witness ==
    /\ \E c \in Range(case_studies) :
          c.relevance_score = 25 /\ c.relevant_to_decarbonization = "Possibly Relevant"
    /\ \E c \in Range(case_studies) :
          c.relevance_score = 50 /\ c.relevant_to_decarbonization = "Relevant"

\* C2: in every state of every CaseStudy, from construction on, relevance_score
\* is an integer from 0 to 100.
C2_ScoreInRange ==
    \A c \in CaseStudies : c.relevance_score \in 0..100

\* one case study whose raw score is above 100 and one whose raw score is
\* below 0, both determined
C2_Witness ==
    /\ \E c \in Range(case_studies) :
          /\ c.scorer.text_score > 100 \/ c.scorer.ai_keywords_score > 100
          /\ c.relevance_score = 100
    /\ \E c \in Range(case_studies) :
          /\ c.scorer.text_score < 0 /\ c.scorer.ai_keywords_score <= 0
          /\ c.relevance_score = 0

\* C3: the relevance score is the larger of the two raw scores of the case
\* study's scorer, brought into 0..100; it is not their sum.
C3_ScoreIsLargerRawScore ==
    \A c \in CaseStudies :
        Determined(c) =>
            LET larger == IF c.scorer.text_score >= c.scorer.ai_keywords_score
                          THEN c.scorer.text_score ELSE c.scorer.ai_keywords_score
            IN  c.relevance_score =
                    IF larger > 100 THEN 100 ELSE IF larger < 0 THEN 0 ELSE larger

\* both raw scores are positive and differ, and the score is the larger one,
\* below their sum
C3_Witness ==
    \E c \in Range(case_studies) :
        /\ c.scorer.text_score = 25
        /\ c.scorer.ai_keywords_score = 50
        /\ c.relevance_score = 50
        /\ c.relevant_to_decarbonization = "Relevant"

----------------------------------------------------------------------------
(* The sums the scoring operations are specified by.                       *)

RECURSIVE SumSeq(_)
SumSeq(q) == IF q = <<>> THEN 0 ELSE Head(q) + SumSeq(Tail(q))

\* count_matches(text, keyword): the hits of fuzzy_match_keyword, and the 0
\* hits the specification gives a keyword without words
CountMatches(text, keyword) ==
    LET hits == fuzzy_match_keyword(text, keyword)
    IN  IF hits.raised THEN 0 ELSE hits.value

\* sum over the groups and their synonyms of count_matches * weight
TextSum(target_keywords, text) ==
    SumSeq([g \in 1..Len(target_keywords) |->
              SumSeq([k \in 1..Len(GetSynonyms(target_keywords[g])) |->
                        CountMatches(text, GetSynonyms(target_keywords[g])[k])
                            * GetScore(target_keywords[g])])])

\* sum over the groups of weight * 2 where some chunk matches some synonym
AiSum(target_keywords, keywords) ==
    LET chunks == chunk_keywords(keywords)
    IN  SumSeq([g \in 1..Len(target_keywords) |->
                  IF \E c \in chunks :
                        \E k \in 1..Len(GetSynonyms(target_keywords[g])) :
                           fuzzy_match_two_sets_keywords(
                               {c}, {GetSynonyms(target_keywords[g])[k]})
                  THEN GetScore(target_keywords[g]) * 2
                  ELSE 0])

\* the two sums for every taxonomy, text and keyword list a case study can
\* be given, as triples <<taxonomy, input, sum>>
CaseStudyTextSum ==
    {<<target_keywords, text, TextSum(target_keywords, text)>> :
        target_keywords \in Taxonomies, text \in ScorerTexts}

CaseStudyAiSum ==
    {<<target_keywords, keywords, AiSum(target_keywords, keywords)>> :
        target_keywords \in Taxonomies, keywords \in KeywordLists \cup {<<>>}}

\* the step is one call of the operation op on `scorer`
IsCall(op) == call'.n = call.n + 1 /\ call'.op = op

----------------------------------------------------------------------------
(* Properties of SpecScorer.                                               *)

\* C4: one _text_score call adds to text_score exactly the sum, over every
\* group and every synonym of the group, of count_matches(text, synonym)
\* times the group's weight.
C4_TextScoreAddsSum ==
    [][IsCall("_text_score") =>
          scorer'.text_score = scorer.text_score + TextSum(taxonomy, call'.text)]_vars

\* C5: one _ai_keywords_score call (made directly, or by a __call__ that was
\* given a non-empty list and whose text scoring returned) adds to
\* ai_keywords_score, for each group, weight * 2 if a chunk of the keywords
\* matches a synonym of the group and 0 otherwise: once per group.
C5_AiKeywordsAddOncePerGroup ==
    [][(\/ IsCall("_ai_keywords_score")
        \/ IsCall("__call__") /\ Truthy(call'.keywords) /\ ~call'.raised) =>
          scorer'.ai_keywords_score =
              scorer.ai_keywords_score + AiSum(taxonomy, call'.keywords.list)]_vars

\* a direct call on the one group ["ab", "abb"] of weight 25 with keywords
\* ["abb ab"]: both synonyms match, and 50 was added, once
C5_Witness ==
    /\ call.n = 1
    /\ call.op = "_ai_keywords_score"
    /\ call.keywords = List(<< <<"a", "b", "b", " ", "a", "b">> >>)
    /\ taxonomy = << Group(<< <<"a", "b">>, <<"a", "b", "b">> >>, 25) >>
    /\ scorer.ai_keywords_score = 50

\* C6: __call__ always scores the text, and leaves ai_keywords_score unchanged
\* when ai_gen_keywords is None or an empty list.
C6_EmptyKeywordsLeaveAiScore ==
    [][IsCall("__call__") =>
          /\ ~Truthy(call'.keywords) =>
                 scorer'.ai_keywords_score = scorer.ai_keywords_score
          /\ ~call'.raised =>
                 scorer'.text_score = scorer.text_score + TextSum(taxonomy, call'.text)]_vars

\* a second call, given None, that scored its text and left in place the
\* ai_keywords_score the first call had built
C6_Witness ==
    /\ call.n = 2
    /\ call.op = "__call__"
    /\ call.keywords = None
    /\ ~call.raised
    /\ scorer.ai_keywords_score # 0
    /\ scorer.text_score # 0

\* C7: a fresh scorer has both counters at 0, and after n text-scoring calls
\* that returned and were all given the same text, text_score is n times the
\* score of one such call.
C7_ScoresAccumulate ==
    /\ call.n = 0 => scorer = [text_score |-> 0, ai_keywords_score |-> 0]
    /\ (history.n >= 1 /\ history.uniform) =>
           scorer.text_score = history.n * TextSum(taxonomy, history.text)

\* two calls with the same text, whose one-call score is not 0
C7_Witness ==
    /\ history.n = 2
    /\ history.uniform
    /\ TextSum(taxonomy, history.text) # 0
    /\ scorer.text_score = 2 * TextSum(taxonomy, history.text)

----------------------------------------------------------------------------
(* Properties of SpecMatch.                                                *)

\* C8: fuzzy_match_keyword(text, "") returns 0 for every text, and does not
\* end in an error.
C8_EmptyKeywordReturnsZero ==
    (match.pc = "done" /\ match.keyword = <<>>) => match.result = Return(0)

\* C10: when the keyword is a single word, and that word is one of the words
\* of the text, fuzzy_match_keyword returns 1.
C10_ExactWordMatches ==
    LET keyword == Preprocess(match.keyword)
        text_words == Split(Preprocess(match.text))
    IN  (/\ match.pc = "done"
         /\ Split(keyword) = <<keyword>>
         /\ keyword \in Range(text_words)) =>
            match.result = Return(1)

\* the keyword is a word of a text of several words, and not the first one
C10_Witness ==
    LET keyword == Preprocess(match.keyword)
        text_words == Split(Preprocess(match.text))
    IN  /\ match.pc = "done"
        /\ Split(keyword) = <<keyword>>
        /\ Len(text_words) >= 2
        /\ keyword \in Range(text_words)
        /\ keyword # text_words[1]
        /\ match.result = Return(1)

----------------------------------------------------------------------------
(* C9, a property of Spec.                                                 *)

\* C9: every case study's scorer is called at most once, and once its
\* relevance is determined, its scorer and its relevance score are those a
\* fresh scorer gives its own text and keywords, whatever was processed
\* before it.
C9_IndependentScoring ==
    \A c \in CaseStudies :
        /\ c.scorer_calls <= 1
        /\ c.scorer_calls = 0 => c.scorer = [text_score |-> 0, ai_keywords_score |-> 0]
        /\ Determined(c) =>
              /\ c.scorer_calls = 1
              /\ <<taxonomy, c.text, c.scorer.text_score>> \in CaseStudyTextSum
              /\ <<taxonomy, c.keywords, c.scorer.ai_keywords_score>> \in CaseStudyAiSum
              /\ c.relevance_score =
                     Max(0, Min(100, Max(c.scorer.text_score,
                                         c.scorer.ai_keywords_score)))

\* two case studies were processed, both with a text score that is not 0
C9_Witness ==
    /\ Len(case_studies) = 2
    /\ \A i \in 1..2 : case_studies[i].scorer.text_score # 0
    /\ case_studies[1].text # case_studies[2].text

----------------------------------------------------------------------------
(* C11, a property of SpecUtils.                                           *)

\* C11: fuzzy_match_two_sets_keywords returns True exactly when some keyword
\* of the first set and some keyword of the second, both lowercased, have a
\* ratio of at least 0.85, in whatever order the sets are iterated; it
\* returns False when a set is empty and True for two equal one-keyword sets.
C11_AnyMatchIffSomePair ==
    (util.pc = "done" /\ util.op = "fuzzy_match_two_sets_keywords") =>
        /\ util.result =
              (\E a \in util.arg_1 : \E b \in util.arg_2 :
                  100 * ratio(Lower(a), Lower(b)).num
                      >= 85 * ratio(Lower(a), Lower(b)).den)
        /\ (util.arg_1 = {} \/ util.arg_2 = {}) => util.result = FALSE
        /\ (util.arg_1 = util.arg_2 /\ Cardinality(util.arg_1) = 1) =>
              util.result = TRUE

\* the only pair that reaches 0.85 is the last one of the iteration, and its
\* keywords are neither equal nor equal after lowercasing
C11_Witness ==
    /\ util.pc = "done"
    /\ util.op = "fuzzy_match_two_sets_keywords"
    /\ util.result = TRUE
    /\ Len(util.order_1) = 2
    /\ Len(util.order_2) = 2
    /\ util.order_1[2] # util.order_2[2]
    /\ \A i \in 1..2 : \A j \in 1..2 :
          AtLeast(ratio(util.order_1[i], util.order_2[j]), SetThresholdPct)
              <=> (i = 2 /\ j = 2)

----------------------------------------------------------------------------
(* C12, a property of SpecUtils.                                           *)

\* the words of a phrase, and its pairs of adjacent words joined by a space
WordsOf(phrase) == Range(Split(phrase))

AdjacentPairsOf(phrase) ==
    {Split(phrase)[i] \o <<" ">> \o Split(phrase)[i + 1] :
        i \in 1..(Len(Split(phrase)) - 1)}

----------------------------------------------------------------------------
(* C13, a property of SpecUtils.                                           *)

\* C13: the ratio of a and b is the ratio of b and a.
C13_RatioIsSymmetric ==
    (util.pc = "done" /\ util.op = "ratio") =>
        util.result.num * ratio(util.arg_2, util.arg_1).den
            = ratio(util.arg_2, util.arg_1).num * util.result.den

----------------------------------------------------------------------------
(* C14, a property of SpecScorer.                                          *)

\* every weight of the taxonomy is a non-negative integer
NonNegativeWeights(target_keywords) ==
    \A g \in 1..Len(target_keywords) :
        target_keywords[g].has_score => target_keywords[g].score \in Nat

\* C14: with a taxonomy of non-negative weights, both counters are
\* non-negative integers before and after every call, and no call makes
\* one of them smaller.
C14_CountersNonNegativeAndMonotone ==
    [][NonNegativeWeights(taxonomy) =>
          /\ scorer.text_score \in Nat
          /\ scorer.ai_keywords_score \in Nat
          /\ scorer'.text_score \in Nat
          /\ scorer'.ai_keywords_score \in Nat
          /\ scorer'.text_score >= scorer.text_score
          /\ scorer'.ai_keywords_score >= scorer.ai_keywords_score]_vars

\* two calls were made, the second one __call__ with a text and keywords that
\* score nothing, on counters that the first call had raised above 0
C14_Witness ==
    /\ NonNegativeWeights(taxonomy)
    /\ call.n = 2
    /\ call.op = "__call__"
    /\ ~call.raised
    /\ Truthy(call.keywords)
    /\ TextSum(taxonomy, call.text) = 0
    /\ AiSum(taxonomy, call.keywords.list) = 0
    /\ scorer.text_score > 0
    /\ scorer.ai_keywords_score > 0

----------------------------------------------------------------------------
(* C15, a property of SpecScorer.                                          *)

\* C15: when the keywords file does not exist, the construction ends in an
\* error: there is never a constructed scorer, and no call is ever made.
C15_MissingFileFailsConstruction ==
    ~construction.exists =>
        /\ construction.pc \in {"__init__", "raised"}
        /\ construction.pc = "raised" =>
              construction.error \in {AssertionError, FileNotFoundError}
        /\ call = NoCall
        /\ history = NoHistory

\* the construction has failed in open(), the assert statement being removed
C15_Witness ==
    /\ ~construction.exists
    /\ construction.pc = "raised"
    /\ construction.error = FileNotFoundError

----------------------------------------------------------------------------
(* C16, a property of SpecScorer.                                          *)

\* the group has both keys
HasBothKeys(group) == group.has_synonyms /\ group.has_score

\* the taxonomy without the groups that miss a key
WithoutIncompleteGroups(target_keywords) == SelectSeq(target_keywords, HasBothKeys)

\* C16: groups that miss the "synonyms" key or the "score" key raise no error
\* and add nothing: every call ends as it would without them, returning or
\* raising alike and with the same two counters.
C16_IncompleteGroupsContributeNothing ==
    [][LET complete == WithoutIncompleteGroups(taxonomy)
       IN  /\ IsCall("_text_score") =>
                LET r == _text_score(complete, call'.text, scorer.text_score)
                IN  /\ call'.raised = r.raised
                    /\ scorer'.text_score = r.text_score
           /\ IsCall("_ai_keywords_score") =>
                scorer'.ai_keywords_score =
                    _ai_keywords_score(complete, call'.keywords.list,
                                       scorer.ai_keywords_score)
           /\ IsCall("__call__") =>
                LET r == __call__(complete, scorer, call'.text, call'.keywords)
                IN  /\ call'.raised = r.raised
                    /\ scorer' = r.scorer]_vars

----------------------------------------------------------------------------
(* C17, a property of Spec.                                                *)

\* the step is the return of _determine_relevance in _analyze_content
DeterminationEnds ==
    case_.pc = "_determine_relevance" /\ case_'.pc \in {"_summarize", "constructed"}

\* C17: _summarize is called exactly for the documents classified Relevant
\* (score of 50 or more), and only once the content was fetched, the text
\* extracted, the keywords generated when they are asked for, and the
\* relevance determined; the summary of every other document stays empty.
C17_SummarizedIffRelevant ==
    /\ [](\A c \in CaseStudies :
            /\ c.summary # "" => c.relevant_to_decarbonization = "Relevant"
            /\ c.pc = "_summarize" =>
                  /\ c.relevant_to_decarbonization = "Relevant"
                  /\ c.relevance_score >= 50
                  /\ c.html_content # ""
                  /\ c.text # <<>>
                  /\ generate_keywords => c.keywords # <<>>
                  /\ c.scorer_calls = 1)
    /\ [][/\ DeterminationEnds =>
               ((case_'.pc = "_summarize")
                   <=> (case_'.relevant_to_decarbonization = "Relevant"))
          /\ case_'.pc = "_summarize" => (DeterminationEnds \/ case_.pc = "_summarize")
          /\ case_'.summary # case_.summary =>
               (case_.pc = "_summarize" \/ case_'.pc \in {"none", "_get_html_content"})
         ]_vars

\* of two processed documents with generated keywords, the Relevant one has a
\* summary and the Possibly Relevant one has none
C17_Witness ==
    /\ generate_keywords
    /\ Len(case_studies) = 2
    /\ case_studies[1].relevant_to_decarbonization = "Relevant"
    /\ case_studies[1].summary # ""
    /\ case_studies[2].relevant_to_decarbonization = "Possibly Relevant"
    /\ case_studies[2].summary = ""

----------------------------------------------------------------------------
(* C18, a property of SpecMatch.                                           *)

\* the word reaches the threshold of 0.8 against the keyword
ReachesThreshold(keyword, word) ==
    LET r == ratio(keyword, word) IN 100 * r.num >= 80 * r.den

RECURSIVE WindowSimilaritySum(_, _, _, _)
WindowSimilaritySum(keyword_words, text_words, i, j) ==
    IF j > Len(keyword_words) THEN [num |-> 0, den |-> 1]
    ELSE LET r == ratio(keyword_words[j], text_words[i + j])
             s == WindowSimilaritySum(keyword_words, text_words, i, j + 1)
         IN  [num |-> r.num * s.den + s.num * r.den, den |-> r.den * s.den]

\* the average similarity of the window at 0-based offset i is >= threshold
WindowQualifies(keyword_words, text_words, i) ==
    LET s == WindowSimilaritySum(keyword_words, text_words, i, 1)
    IN  100 * s.num >= KeywordThresholdPct * Len(keyword_words) * s.den

\* the number of windows: len(text_words) - k + 1, none when that is negative
WindowCount(keyword_words, text_words) ==
    Max(0, Len(text_words) - Len(keyword_words) + 1)

\* C19: for a keyword of k > 1 words, fuzzy_match_keyword returns 1 iff at
\* least one of the len(text_words) - k + 1 windows of k consecutive text
\* words has an average per-position similarity >= threshold, and returns 0
\* otherwise.
C19_WindowAverageDecides ==
    LET keyword_words == Split(Preprocess(match.keyword))
        text_words == Split(Preprocess(match.text))
        qualifies == \E i \in 0..(WindowCount(keyword_words, text_words) - 1) :
                         WindowQualifies(keyword_words, text_words, i)
    IN  (match.pc = "done" /\ Len(keyword_words) > 1) =>
            match.result = Return(IF qualifies THEN 1 ELSE 0)

\* C20: for a keyword of at least one word, fuzzy_match_keyword returns 0
\* without error when the text has no words and when the keyword has more
\* words than the text.
C20_NoWindowsReturnsZero ==
    LET keyword_words == Split(Preprocess(match.keyword))
        text_words == Split(Preprocess(match.text))
    IN  (/\ match.pc = "done"
         /\ Len(keyword_words) >= 1
         /\ (text_words = <<>> \/ Len(keyword_words) > Len(text_words)))
        => match.result = Return(0)

C20_Witness ==
    LET keyword_words == Split(Preprocess(match.keyword))
        text_words == Split(Preprocess(match.text))
    IN  /\ match.pc = "done"
        /\ Len(keyword_words) = 3
        /\ Len(text_words) = 2
        /\ \A j \in 1..2 : keyword_words[j] = text_words[j]
        /\ match.result = Return(0)


----------------------------------------------------------------------------
\* C21: every _text_score, _ai_keywords_score and __call__ made on a
\* constructed scorer leaves the taxonomy it loaded (the groups in their
\* order, with their synonyms and weights and the keys they hold) as it was;
\* of the scorer's state it changes only text_score and ai_keywords_score.
C21_TaxonomyNeverMutated ==
    [][(\E op \in {"_text_score", "_ai_keywords_score", "__call__"} : IsCall(op))
          => /\ taxonomy' = taxonomy
             /\ construction' = construction
             /\ DOMAIN scorer' = {"text_score", "ai_keywords_score"}]_vars

\* Two calls were made on a taxonomy with a group that lacks a key, and both
\* counters have moved.
C21_Witness ==
    /\ construction.pc = "constructed"
    /\ call.n = MaxCalls
    /\ \E g \in 1..Len(taxonomy) : ~HasBothKeys(taxonomy[g])
    /\ scorer.text_score # 0
    /\ scorer.ai_keywords_score # 0


----------------------------------------------------------------------------
====
